---- MODULE Spec2Model ----
(***************************************************************************)
(* A model of scripts/freshdesk-api.js: the FreshdeskApi class, its        *)
(* response validation (checkStatus), the three list operations and the   *)
(* three upsert-translation operations with their PUT -> POST fallback and *)
(* the one-way rate-limit flag.                                            *)
(*                                                                         *)
(* JavaScript is single threaded: a call runs until it returns or awaits,  *)
(* and each promise reaction is a job of its own that runs to completion.  *)
(* Each action below is one such run -- the synchronous part of a method   *)
(* up to the fetch it issues, the job of one then or catch of a chain      *)
(* (which runs the callback, or hands on a settlement the callback is not  *)
(* for), the resumption of an await -- or one event of the network: the    *)
(* headers of a response arrive or the request fails (fetch settles), the  *)
(* body has arrived (res.json() settles).  Jobs of other calls, and new    *)
(* calls, may run between any two of them.                                 *)
(***************************************************************************)
EXTENDS Integers, Sequences, FiniteSets, Bags, TLC

\* Number of calls the caller makes on the instance in one run.
MaxCalls == 2

-----------------------------------------------------------------------------
(* Inputs of the calls *)

\* The translations the caller pushes: an id, a locale and the body for it.
Translations ==
    { [id |-> 1, locale |-> "en", body |-> [title |-> "Hello"]],
      [id |-> 42, locale |-> "fr", body |-> [title |-> "Bonjour"]] }
\* The ids of the categories and folders the caller lists.
Ids == {7}
NoBody == [title |-> ""]

\* new FreshdeskApi(baseUrl, apiKey) with these arguments.
baseUrl == "https://scratch.freshdesk.com"
apiKey == "key"

\* Buffer.from(`${apiKey}:X`).toString('base64'), for the key of the model.
Base64(s) ==
    CASE s = "key:X" -> "a2V5Olg="
      [] OTHER -> "?"

_auth == "Basic " \o Base64(apiKey \o ":X")

defaultHeaders ==
    [n \in {"Content-Type", "Authorization"} |->
        IF n = "Content-Type" THEN "application/json" ELSE _auth]

\* JSON.stringify of a translation object {title: ...}.
JSONstringify(body) == "{\"title\":\"" \o body.title \o "\"}"

-----------------------------------------------------------------------------
(* Responses of the server *)

\* JavaScript null, which a template literal renders as the text null.
Null == "null"

\* The property code of an error holds a number (the HTTP status, set by
\* checkStatus) or a string (the name of a system error, set by the fetch
\* library).  The value is kept with its type, since === compares both.
Number(n) == [number |-> n]
String(s) == [string |-> s]

StatusText(status) ==
    CASE status = 199 -> "Early"
      [] status = 200 -> "OK"
      [] status = 201 -> "Created"
      [] status = 299 -> "Custom"
      [] status = 300 -> "Multiple Choices"
      [] status = 404 -> "Not Found"
      [] status = 429 -> "Too Many Requests"
      [] status = 500 -> "Internal Server Error"
      [] OTHER -> ""

ContentTypes ==
    {"application/json", "application/json; charset=utf-8", "text/html",
     "Application/JSON", "json"}
RetryAfters == {"30"}

\* A header map holds lower-cased names; a header may be absent.
HeaderMaps ==
    { h \in UNION { [D -> ContentTypes \cup RetryAfters] :
                      D \in SUBSET {"content-type", "retry-after"} } :
        /\ "content-type" \in DOMAIN h => h["content-type"] \in ContentTypes
        /\ "retry-after" \in DOMAIN h => h["retry-after"] \in RetryAfters }

\* Response bodies and what Response.json() makes of them.
TranslationText == "{\"id\":42,\"locale\":\"fr\",\"title\":\"Bonjour\"}"
BodyTexts == {TranslationText, "<html>"}

\* A response: its status line and headers, and the body the server sends
\* after them (text), which only res.json() reads.
MakeResponse(status, headers, text) ==
    [status |-> status, statusText |-> StatusText(status),
     headers |-> headers, text |-> text]

\* Every response checkStatus is tried on.
AllStatuses == {199, 200, 201, 299, 300, 404, 429, 500}
Responses ==
    { MakeResponse(s, h, t) : s \in AllStatuses, h \in HeaderMaps, t \in BodyTexts }

\* Header names are case-insensitive: Headers.get lower-cases the name.
LowerCase(name) ==
    CASE name = "Retry-After" -> "retry-after"
      [] name = "Content-Type" -> "content-type"
      [] OTHER -> name

\* res.headers.get(name): the value, or null when the header is absent.
headersGet(res, name) ==
    IF LowerCase(name) \in DOMAIN res.headers
    THEN res.headers[LowerCase(name)]
    ELSE Null

\* res.ok of node-fetch: status >= 200 && status < 300.
ok(res) == res.status >= 200 /\ res.status < 300

\* String.prototype.startsWith.
startsWith(s, prefix) ==
    /\ Len(s) >= Len(prefix)
    /\ SubSeq(s, 1, Len(prefix)) = prefix

\* res.headers.get('content-type')?.startsWith('application/json'):
\* undefined (falsy) when the header is absent.
contentTypeIsJson(res) ==
    /\ LowerCase("content-type") \in DOMAIN res.headers
    /\ startsWith(headersGet(res, "content-type"), "application/json")

Returned(v) == [threw |-> FALSE, value |-> v]
Thrown(e) == [threw |-> TRUE, error |-> e]

\* checkStatus with the content type looked at before the status.
checkStatusContentTypeFirst(res) ==
    IF ~contentTypeIsJson(res)
    THEN Thrown([message |-> "response not json: " \o headersGet(res, "content-type")])
    ELSE IF ok(res)
         THEN Returned(res)
         ELSE IF res.status = 429
              THEN Thrown([message |-> "response " \o res.statusText,
                           code |-> Number(res.status),
                           retryAfter |-> headersGet(res, "Retry-After")])
              ELSE Thrown([message |-> "response " \o res.statusText,
                           code |-> Number(res.status)])

\* checkStatus with the content type compared for equality.
checkStatusExactType(res) ==
    IF ok(res)
    THEN IF headersGet(res, "content-type") = "application/json"
         THEN Returned(res)
         ELSE Thrown([message |-> "response not json: " \o headersGet(res, "content-type")])
    ELSE IF res.status = 429
         THEN Thrown([message |-> "response " \o res.statusText,
                      code |-> Number(res.status),
                      retryAfter |-> headersGet(res, "Retry-After")])
         ELSE Thrown([message |-> "response " \o res.statusText,
                      code |-> Number(res.status)])

\* checkStatus(res): returns res or throws.  An error is a record with the
\* properties the code sets on it; a property never set is not in its domain.
checkStatus(res) ==
    IF ok(res)
    THEN IF contentTypeIsJson(res)
         THEN Returned(res)
         ELSE Thrown([message |-> "response not json: " \o headersGet(res, "content-type")])
    ELSE IF res.status = 429
         THEN Thrown([message |-> "response " \o res.statusText,
                      code |-> Number(res.status),
                      retryAfter |-> headersGet(res, "Retry-After")])
         ELSE Thrown([message |-> "response " \o res.statusText,
                      code |-> Number(res.status)])

\* What a promise settles to.
Resolved(v) == [kind |-> "resolved", value |-> v]
Rejected(e) == [kind |-> "rejected", error |-> e]

-----------------------------------------------------------------------------
(* The fetch library *)

\* require('node-fetch') resolves to the package that is installed: node-fetch
\* 2 or one of its forks, or a wrapper of the fetch of the platform.  They
\* differ in the errors they make, and one run uses one of them throughout.
Libraries == {"node-fetch", "minipass-fetch", "node-fetch-npm", "undici"}

\* The message of the SyntaxError JSON.parse throws on a text that does not
\* start a JSON value.
JSONparseMessage(text) ==
    "Unexpected token '" \o SubSeq(text, 1, 1) \o "', \"" \o text
    \o "\" is not valid JSON"

\* What res.json() rejects with when the body is not JSON, for a response to a
\* request of the given URL: a FetchError of type invalid-json that names the
\* URL (with a code in minipass-fetch), or the SyntaxError itself.
InvalidJson(library, url, text) ==
    CASE library = "node-fetch" ->
            [message |-> "invalid json response body at " \o url
                         \o " reason: " \o JSONparseMessage(text),
             type |-> "invalid-json"]
      [] library = "minipass-fetch" ->
            [message |-> "invalid json response body at " \o url
                         \o " reason: " \o JSONparseMessage(text),
             type |-> "invalid-json",
             code |-> String("FETCH_ERROR"), errno |-> "FETCH_ERROR"]
      [] library = "node-fetch-npm" ->
            [message |-> JSONparseMessage(text) \o " while parsing '" \o text \o "'"]
      [] library = "undici" ->
            [message |-> JSONparseMessage(text)]

\* res.json(), once the body has arrived: the parsed body, or the error of the
\* library.  url is res.url, the URL of the request.
json(library, res, url) ==
    IF res.text = TranslationText
    THEN Resolved([id |-> 42, locale |-> "fr", title |-> "Bonjour"])
    ELSE Rejected(InvalidJson(library, url, res.text))

\* What fetch rejects with when the connection is refused: in node-fetch and
\* its forks a FetchError of type system whose code and errno are the name of
\* the system error, a string; in undici a TypeError with the cause apart.
TransportError(library, url) ==
    IF library = "undici"
    THEN [message |-> "fetch failed"]
    ELSE [message |-> "request to " \o url
                      \o " failed, reason: connect ECONNREFUSED 127.0.0.1:443",
          type |-> "system",
          code |-> String("ECONNREFUSED"), errno |-> "ECONNREFUSED"]

-----------------------------------------------------------------------------
(* The network *)

JsonHeaders == [n \in {"content-type"} |-> "application/json"]
HtmlHeaders == [n \in {"content-type"} |-> "text/html"]

\* The responses the server gives to the requests of the instance.
NetResponses ==
    { MakeResponse(200, JsonHeaders, TranslationText),
      MakeResponse(201, JsonHeaders, TranslationText),
      MakeResponse(200, JsonHeaders, "<html>"),
      MakeResponse(200, HtmlHeaders, "<html>"),
      MakeResponse(404, JsonHeaders, TranslationText),
      MakeResponse(429, JsonHeaders, TranslationText),
      MakeResponse(500, HtmlHeaders, "<html>") }

\* How the network settles a fetch: with a response, or with a failure.
NetOutcomes ==
    { [kind |-> "response", res |-> r] : r \in NetResponses }
      \cup { [kind |-> "failure"] }

\* err.code >= n in place of err.code === n.
codeAtLeast(err, n) ==
    /\ "code" \in DOMAIN err
    /\ "number" \in DOMAIN err.code
    /\ err.code.number >= n

\* err.code === n, for a number n: the property is there, holds a number, and
\* the number is n.
codeIs(err, n) == "code" \in DOMAIN err /\ err.code = Number(n)

-----------------------------------------------------------------------------
(* State *)

VARIABLES
    rateLimited,  \* this.rateLimited
    calls,        \* the calls made on the instance so far, a bag of call records
    library,      \* the fetch library of the run
    probe         \* a response handed to checkStatus on its own, and the result

vars == <<rateLimited, calls, library, probe>>

Pending == [kind |-> "pending"]
\* The number -1, returned in place of a promise.
Sentinel == [kind |-> "returned", number |-> -1]

\* A call: its method and arguments, where it is (pc), the requests it has
\* issued (reqs), what the promise the next job of the call reacts to has
\* settled to (carry), what the chain fetch.then.then of each request settled
\* to, or the await and res.json() of a list method (settled), the
\* lines it wrote to process.stdout (out), what the promise it returned has
\* settled to, or the number it returned (result), and the value
\* this.rateLimited had when the call was made (entryFlag).
\* A request is what fetch was given (method, url, body, headers), with the
\* value this.rateLimited had when it was issued (limited).
NoCall ==
    [op |-> "none", id |-> 0, locale |-> "", body |-> NoBody, pc |-> "idle",
     entryFlag |-> FALSE, reqs |-> <<>>, carry |-> Pending, settled |-> <<>>,
     out |-> <<>>, result |-> Pending]

NotApplied == [pending |-> TRUE]
NoProbe == [applied |-> FALSE, res |-> MakeResponse(200, << >>, "<html>"),
            out |-> NotApplied]

\* The constructor: rateLimited = false; nothing is sent.
Init ==
    /\ rateLimited = FALSE
    /\ calls = EmptyBag
    /\ library \in Libraries
    /\ probe = NoProbe

Calls == BagToSet(calls)

\* The caller makes one more call.
canCall == BagCardinality(calls) < MaxCalls

made(op, id, locale, body) ==
    [NoCall EXCEPT !.op = op, !.id = id, !.locale = locale, !.body = body,
                   !.entryFlag = rateLimited]

\* The bag of calls with the call c added, and with c moved on to d.
with(c) == calls (+) SetToBag({c})
moved(c, d) == (calls (-) SetToBag({c})) (+) SetToBag({d})

UpdateOps ==
    {"updateCategoryTranslation", "updateFolderTranslation", "updateArticleTranslation"}
ListOps == {"listCategories", "listFolders", "listArticles"}

-----------------------------------------------------------------------------
(* The events of the network *)

\* The URL of the request of the call c that was issued last.
url(c) == c.reqs[Len(c.reqs)].url

\* The fetch of the call c settles: the status line and the headers of the
\* response have arrived and fetch resolves to the response, or the request
\* has failed and fetch rejects.  The job of then(checkStatus), or the
\* resumption of the await of a list method, is next.
fetchSettles(c, net) ==
    /\ c.pc \in {"awaitPut", "awaitPost", "awaitGet"}
    /\ calls' = moved(c,
          [c EXCEPT
              !.carry = IF net.kind = "response"
                        THEN Resolved(net.res)
                        ELSE Rejected(TransportError(library, url(c))),
              !.pc = CASE c.pc = "awaitPut" -> "putCheckStatus"
                       [] c.pc = "awaitPost" -> "postCheckStatus"
                       [] c.pc = "awaitGet" -> "getResume"])
    /\ UNCHANGED <<rateLimited, library, probe>>

\* The body of the response of the call c has arrived and res.json() settles,
\* and with it the promise of then(res => res.json()) that follows it.  In an
\* upsert the job of catch, or the promise of the call that follows the chain
\* of the POST, is next; in a list method the promise of the async function
\* follows the promise of res.json().
bodyArrives(c) ==
    /\ c.pc \in {"putBody", "postBody", "getBody"}
    /\ calls' = moved(c,
          IF c.pc = "getBody"
          THEN [c EXCEPT
                  !.settled = Append(@, json(library, c.carry.value, url(c))),
                  !.carry = Pending,
                  !.result = json(library, c.carry.value, url(c)),
                  !.pc = "done"]
          ELSE [c EXCEPT
                  !.settled = Append(@, json(library, c.carry.value, url(c))),
                  !.carry = json(library, c.carry.value, url(c)),
                  !.pc = IF c.pc = "putBody" THEN "putCatch" ELSE "postReturn"])
    /\ UNCHANGED <<rateLimited, library, probe>>

-----------------------------------------------------------------------------
(* updateCategoryTranslation (id, locale, body) *)

\* updateCategoryTranslation without the test of this.rateLimited.
updateCategoryTranslationUnguarded(id, locale, body) ==
    /\ canCall
    /\ calls' = with(
            [made("updateCategoryTranslation", id, locale, body) EXCEPT
                !.reqs = <<[method |-> "put",
                            url |-> baseUrl \o "/api/v2/solutions/categories/"
                                    \o ToString(id) \o "/" \o locale,
                            body |-> JSONstringify(body),
                            headers |-> defaultHeaders,
                            limited |-> rateLimited]>>,
                !.pc = "awaitPut"])
    /\ UNCHANGED <<rateLimited, library, probe>>

\* The synchronous part: the flag is read, and either -1 is returned or the
\* PUT is issued.
updateCategoryTranslation(id, locale, body) ==
    /\ canCall
    /\ IF rateLimited
       THEN calls' = with(
                [made("updateCategoryTranslation", id, locale, body) EXCEPT
                    !.out = <<"Rate limited, skipping id: " \o ToString(id)
                              \o " for " \o locale \o "\n">>,
                    !.result = Sentinel,
                    !.pc = "done"])
       ELSE calls' = with(
                [made("updateCategoryTranslation", id, locale, body) EXCEPT
                    !.reqs = <<[method |-> "put",
                                url |-> baseUrl \o "/api/v2/solutions/categories/"
                                        \o ToString(id) \o "/" \o locale,
                                body |-> JSONstringify(body),
                                headers |-> defaultHeaders,
                                limited |-> rateLimited]>>,
                    !.pc = "awaitPut"])
    /\ UNCHANGED <<rateLimited, library, probe>>

\* .then(this.checkStatus) on the fetch of the PUT: checkStatus is called with
\* the response and returns it or throws; a rejection of fetch is handed on.
updateCategoryTranslationThenCheckStatus(c) ==
    /\ c.op = "updateCategoryTranslation"
    /\ c.pc = "putCheckStatus"
    /\ calls' = moved(c,
          IF c.carry.kind = "rejected"
          THEN [c EXCEPT !.pc = "putJson"]
          ELSE IF checkStatus(c.carry.value).threw
          THEN [c EXCEPT
                  !.carry = Rejected(checkStatus(c.carry.value).error),
                  !.pc = "putJson"]
          ELSE [c EXCEPT
                  !.carry = Resolved(checkStatus(c.carry.value).value),
                  !.pc = "putJson"])
    /\ UNCHANGED <<rateLimited, library, probe>>

\* .then(res => res.json()) on the PUT: res.json() is called and waits for
\* the body; a rejection is handed on to catch.
updateCategoryTranslationThenJson(c) ==
    /\ c.op = "updateCategoryTranslation"
    /\ c.pc = "putJson"
    /\ calls' = moved(c,
          IF c.carry.kind = "rejected"
          THEN [c EXCEPT !.settled = Append(@, c.carry), !.pc = "putCatch"]
          ELSE [c EXCEPT !.pc = "putBody"])
    /\ UNCHANGED <<rateLimited, library, probe>>

\* The callback of catch with the flag set for every error that has a code.
updateCategoryTranslationCatchAnyCode(c) ==
    /\ c.op = "updateCategoryTranslation"
    /\ c.pc = "putCatch"
    /\ IF c.carry.kind = "resolved"
       THEN /\ calls' = moved(c, [c EXCEPT !.carry = Pending,
                                           !.result = c.carry,
                                           !.pc = "done"])
            /\ UNCHANGED rateLimited
       ELSE IF codeIs(c.carry.error, 404)
       THEN /\ calls' = moved(c, [c EXCEPT
                  !.carry = Pending,
                  !.reqs = Append(@, [c.reqs[1] EXCEPT !.method = "post",
                                                       !.limited = rateLimited]),
                  !.pc = "awaitPost"])
            /\ UNCHANGED rateLimited
       ELSE /\ rateLimited' = IF "code" \in DOMAIN c.carry.error THEN TRUE ELSE rateLimited
            /\ calls' = moved(c, [c EXCEPT
                  !.carry = Pending,
                  !.out = Append(@, "Error processing id " \o ToString(c.id)
                                    \o " for locale " \o c.locale \o ": "
                                    \o c.carry.error.message \o "\n"),
                  !.result = c.carry,
                  !.pc = "done"])
    /\ UNCHANGED <<library, probe>>

\* .catch((err) => ...) on the chain of the PUT.  A parsed body is handed on
\* and settles the call.  On a rejection the callback runs: it issues the POST and
\* returns its chain when err.code === 404; otherwise it sets the flag when
\* err.code === 429, writes the line and throws err.
updateCategoryTranslationCatch(c) ==
    /\ c.op = "updateCategoryTranslation"
    /\ c.pc = "putCatch"
    /\ IF c.carry.kind = "resolved"
       THEN /\ calls' = moved(c, [c EXCEPT !.carry = Pending,
                                           !.result = c.carry,
                                           !.pc = "done"])
            /\ UNCHANGED rateLimited
       ELSE IF codeIs(c.carry.error, 404)
       THEN \* not found, try create instead
            /\ calls' = moved(c, [c EXCEPT
                  !.carry = Pending,
                  !.reqs = Append(@,
                        [method |-> "post",
                         url |-> baseUrl \o "/api/v2/solutions/categories/"
                                 \o ToString(c.id) \o "/" \o c.locale,
                         body |-> JSONstringify(c.body),
                         headers |-> defaultHeaders,
                         limited |-> rateLimited]),
                  !.pc = "awaitPost"])
            /\ UNCHANGED rateLimited
       ELSE /\ rateLimited' = IF codeIs(c.carry.error, 429) THEN TRUE ELSE rateLimited
            /\ calls' = moved(c, [c EXCEPT
                  !.carry = Pending,
                  !.out = Append(@, "Error processing id " \o ToString(c.id)
                                    \o " for locale " \o c.locale \o ": "
                                    \o c.carry.error.message \o "\n"),
                  !.result = c.carry,
                  !.pc = "done"])
    /\ UNCHANGED <<library, probe>>

\* .then(this.checkStatus) on the fetch of the POST.
updateCategoryTranslationPostThenCheckStatus(c) ==
    /\ c.op = "updateCategoryTranslation"
    /\ c.pc = "postCheckStatus"
    /\ calls' = moved(c,
          IF c.carry.kind = "rejected"
          THEN [c EXCEPT !.pc = "postJson"]
          ELSE IF checkStatus(c.carry.value).threw
          THEN [c EXCEPT
                  !.carry = Rejected(checkStatus(c.carry.value).error),
                  !.pc = "postJson"]
          ELSE [c EXCEPT
                  !.carry = Resolved(checkStatus(c.carry.value).value),
                  !.pc = "postJson"])
    /\ UNCHANGED <<rateLimited, library, probe>>

\* .then(res => res.json()) on the POST: res.json() is called and waits for
\* the body; a rejection settles the chain the callback of catch returned.
updateCategoryTranslationPostThenJson(c) ==
    /\ c.op = "updateCategoryTranslation"
    /\ c.pc = "postJson"
    /\ calls' = moved(c,
          IF c.carry.kind = "rejected"
          THEN [c EXCEPT !.settled = Append(@, c.carry), !.pc = "postReturn"]
          ELSE [c EXCEPT !.pc = "postBody"])
    /\ UNCHANGED <<rateLimited, library, probe>>

\* The chain of the POST with a catch of its own that writes the diagnostic line.
updateCategoryTranslationPostLogged(c) ==
    /\ c.op = "updateCategoryTranslation"
    /\ c.pc = "postReturn"
    /\ calls' = moved(c, [c EXCEPT
            !.carry = Pending,
            !.out = IF c.carry.kind = "rejected"
                    THEN Append(@, "Error processing id " \o ToString(c.id)
                                   \o " for locale " \o c.locale \o ": "
                                   \o c.carry.error.message \o "\n")
                    ELSE @,
            !.result = c.carry,
            !.pc = "done"])
    /\ UNCHANGED <<rateLimited, library, probe>>

\* The chain of the POST with a further POST when it fails with 404 too.
updateCategoryTranslationPostAgain(c) ==
    /\ c.op = "updateCategoryTranslation"
    /\ c.pc = "postReturn"
    /\ Len(c.reqs) < 4
    /\ IF c.carry.kind = "rejected" /\ codeIs(c.carry.error, 404)
       THEN calls' = moved(c, [c EXCEPT !.carry = Pending,
                                        !.reqs = Append(@, c.reqs[2]),
                                        !.pc = "awaitPost"])
       ELSE calls' = moved(c, [c EXCEPT !.carry = Pending,
                                        !.result = c.carry,
                                        !.pc = "done"])
    /\ UNCHANGED <<rateLimited, library, probe>>

\* The chain of the POST, which the callback of catch returned, has settled:
\* the promise of the call follows it, whatever it settled to.
updateCategoryTranslationPost(c) ==
    /\ c.op = "updateCategoryTranslation"
    /\ c.pc = "postReturn"
    /\ calls' = moved(c, [c EXCEPT !.carry = Pending,
                                   !.result = c.carry,
                                   !.pc = "done"])
    /\ UNCHANGED <<rateLimited, library, probe>>

-----------------------------------------------------------------------------
(* updateFolderTranslation (id, locale, body) *)

\* updateFolderTranslation with the test inverted: if (!this.rateLimited).
updateFolderTranslationInverted(id, locale, body) ==
    /\ canCall
    /\ IF ~rateLimited
       THEN calls' = with(
                [made("updateFolderTranslation", id, locale, body) EXCEPT
                    !.out = <<"Rate limited, skipping id: " \o ToString(id)
                              \o " for " \o locale \o "\n">>,
                    !.result = Sentinel,
                    !.pc = "done"])
       ELSE calls' = with(
                [made("updateFolderTranslation", id, locale, body) EXCEPT
                    !.reqs = <<[method |-> "put",
                                url |-> baseUrl \o "/api/v2/solutions/folders/"
                                        \o ToString(id) \o "/" \o locale,
                                body |-> JSONstringify(body),
                                headers |-> defaultHeaders,
                                limited |-> rateLimited]>>,
                    !.pc = "awaitPut"])
    /\ UNCHANGED <<rateLimited, library, probe>>

\* The synchronous part: the flag is read, and either -1 is returned or the
\* PUT is issued.
updateFolderTranslation(id, locale, body) ==
    /\ canCall
    /\ IF rateLimited
       THEN calls' = with(
                [made("updateFolderTranslation", id, locale, body) EXCEPT
                    !.out = <<"Rate limited, skipping id: " \o ToString(id)
                              \o " for " \o locale \o "\n">>,
                    !.result = Sentinel,
                    !.pc = "done"])
       ELSE calls' = with(
                [made("updateFolderTranslation", id, locale, body) EXCEPT
                    !.reqs = <<[method |-> "put",
                                url |-> baseUrl \o "/api/v2/solutions/folders/"
                                        \o ToString(id) \o "/" \o locale,
                                body |-> JSONstringify(body),
                                headers |-> defaultHeaders,
                                limited |-> rateLimited]>>,
                    !.pc = "awaitPut"])
    /\ UNCHANGED <<rateLimited, library, probe>>

\* .then(this.checkStatus) on the fetch of the PUT: checkStatus is called with
\* the response and returns it or throws; a rejection of fetch is handed on.
updateFolderTranslationThenCheckStatus(c) ==
    /\ c.op = "updateFolderTranslation"
    /\ c.pc = "putCheckStatus"
    /\ calls' = moved(c,
          IF c.carry.kind = "rejected"
          THEN [c EXCEPT !.pc = "putJson"]
          ELSE IF checkStatus(c.carry.value).threw
          THEN [c EXCEPT
                  !.carry = Rejected(checkStatus(c.carry.value).error),
                  !.pc = "putJson"]
          ELSE [c EXCEPT
                  !.carry = Resolved(checkStatus(c.carry.value).value),
                  !.pc = "putJson"])
    /\ UNCHANGED <<rateLimited, library, probe>>

\* .then(res => res.json()) on the PUT: res.json() is called and waits for
\* the body; a rejection is handed on to catch.
updateFolderTranslationThenJson(c) ==
    /\ c.op = "updateFolderTranslation"
    /\ c.pc = "putJson"
    /\ calls' = moved(c,
          IF c.carry.kind = "rejected"
          THEN [c EXCEPT !.settled = Append(@, c.carry), !.pc = "putCatch"]
          ELSE [c EXCEPT !.pc = "putBody"])
    /\ UNCHANGED <<rateLimited, library, probe>>

\* The callback of catch with this.rateLimited = (err.code === 429).
updateFolderTranslationCatchAssign(c) ==
    /\ c.op = "updateFolderTranslation"
    /\ c.pc = "putCatch"
    /\ IF c.carry.kind = "resolved"
       THEN /\ calls' = moved(c, [c EXCEPT !.carry = Pending,
                                           !.result = c.carry,
                                           !.pc = "done"])
            /\ UNCHANGED rateLimited
       ELSE IF codeIs(c.carry.error, 404)
       THEN /\ calls' = moved(c, [c EXCEPT
                  !.carry = Pending,
                  !.reqs = Append(@, [c.reqs[1] EXCEPT !.method = "post",
                                                       !.limited = rateLimited]),
                  !.pc = "awaitPost"])
            /\ UNCHANGED rateLimited
       ELSE /\ rateLimited' = codeIs(c.carry.error, 429)
            /\ calls' = moved(c, [c EXCEPT
                  !.carry = Pending,
                  !.out = Append(@, "Error processing id " \o ToString(c.id)
                                    \o " for locale " \o c.locale \o ": "
                                    \o c.carry.error.message \o "\n"),
                  !.result = c.carry,
                  !.pc = "done"])
    /\ UNCHANGED <<library, probe>>

\* .catch((err) => ...) on the chain of the PUT.  A parsed body is handed on
\* and settles the call.  On a rejection the callback runs: it issues the POST and
\* returns its chain when err.code === 404; otherwise it sets the flag when
\* err.code === 429, writes the line and throws err.
updateFolderTranslationCatch(c) ==
    /\ c.op = "updateFolderTranslation"
    /\ c.pc = "putCatch"
    /\ IF c.carry.kind = "resolved"
       THEN /\ calls' = moved(c, [c EXCEPT !.carry = Pending,
                                           !.result = c.carry,
                                           !.pc = "done"])
            /\ UNCHANGED rateLimited
       ELSE IF codeIs(c.carry.error, 404)
       THEN \* not found, try create instead
            /\ calls' = moved(c, [c EXCEPT
                  !.carry = Pending,
                  !.reqs = Append(@,
                        [method |-> "post",
                         url |-> baseUrl \o "/api/v2/solutions/folders/"
                                 \o ToString(c.id) \o "/" \o c.locale,
                         body |-> JSONstringify(c.body),
                         headers |-> defaultHeaders,
                         limited |-> rateLimited]),
                  !.pc = "awaitPost"])
            /\ UNCHANGED rateLimited
       ELSE /\ rateLimited' = IF codeIs(c.carry.error, 429) THEN TRUE ELSE rateLimited
            /\ calls' = moved(c, [c EXCEPT
                  !.carry = Pending,
                  !.out = Append(@, "Error processing id " \o ToString(c.id)
                                    \o " for locale " \o c.locale \o ": "
                                    \o c.carry.error.message \o "\n"),
                  !.result = c.carry,
                  !.pc = "done"])
    /\ UNCHANGED <<library, probe>>

\* .then(this.checkStatus) on the fetch of the POST.
updateFolderTranslationPostThenCheckStatus(c) ==
    /\ c.op = "updateFolderTranslation"
    /\ c.pc = "postCheckStatus"
    /\ calls' = moved(c,
          IF c.carry.kind = "rejected"
          THEN [c EXCEPT !.pc = "postJson"]
          ELSE IF checkStatus(c.carry.value).threw
          THEN [c EXCEPT
                  !.carry = Rejected(checkStatus(c.carry.value).error),
                  !.pc = "postJson"]
          ELSE [c EXCEPT
                  !.carry = Resolved(checkStatus(c.carry.value).value),
                  !.pc = "postJson"])
    /\ UNCHANGED <<rateLimited, library, probe>>

\* .then(res => res.json()) on the POST: res.json() is called and waits for
\* the body; a rejection settles the chain the callback of catch returned.
updateFolderTranslationPostThenJson(c) ==
    /\ c.op = "updateFolderTranslation"
    /\ c.pc = "postJson"
    /\ calls' = moved(c,
          IF c.carry.kind = "rejected"
          THEN [c EXCEPT !.settled = Append(@, c.carry), !.pc = "postReturn"]
          ELSE [c EXCEPT !.pc = "postBody"])
    /\ UNCHANGED <<rateLimited, library, probe>>

\* The end of the fallback with the flag read again: -1 when it has been set.
updateFolderTranslationPostRecheck(c) ==
    /\ c.op = "updateFolderTranslation"
    /\ c.pc = "postReturn"
    /\ calls' = moved(c, [c EXCEPT
            !.carry = Pending,
            !.result = IF rateLimited THEN Sentinel ELSE c.carry,
            !.pc = "done"])
    /\ UNCHANGED <<rateLimited, library, probe>>

\* The chain of the POST, which the callback of catch returned, has settled:
\* the promise of the call follows it, whatever it settled to.
updateFolderTranslationPost(c) ==
    /\ c.op = "updateFolderTranslation"
    /\ c.pc = "postReturn"
    /\ calls' = moved(c, [c EXCEPT !.carry = Pending,
                                   !.result = c.carry,
                                   !.pc = "done"])
    /\ UNCHANGED <<rateLimited, library, probe>>

-----------------------------------------------------------------------------
(* updateArticleTranslation (id, locale, body) *)

\* The synchronous part: the flag is read, and either -1 is returned or the
\* PUT is issued.
updateArticleTranslation(id, locale, body) ==
    /\ canCall
    /\ IF rateLimited
       THEN calls' = with(
                [made("updateArticleTranslation", id, locale, body) EXCEPT
                    !.out = <<"Rate limited, skipping id: " \o ToString(id)
                              \o " for " \o locale \o "\n">>,
                    !.result = Sentinel,
                    !.pc = "done"])
       ELSE calls' = with(
                [made("updateArticleTranslation", id, locale, body) EXCEPT
                    !.reqs = <<[method |-> "put",
                                url |-> baseUrl \o "/api/v2/solutions/articles/"
                                        \o ToString(id) \o "/" \o locale,
                                body |-> JSONstringify(body),
                                headers |-> defaultHeaders,
                                limited |-> rateLimited]>>,
                    !.pc = "awaitPut"])
    /\ UNCHANGED <<rateLimited, library, probe>>

\* .then(this.checkStatus) on the fetch of the PUT: checkStatus is called with
\* the response and returns it or throws; a rejection of fetch is handed on.
updateArticleTranslationThenCheckStatus(c) ==
    /\ c.op = "updateArticleTranslation"
    /\ c.pc = "putCheckStatus"
    /\ calls' = moved(c,
          IF c.carry.kind = "rejected"
          THEN [c EXCEPT !.pc = "putJson"]
          ELSE IF checkStatus(c.carry.value).threw
          THEN [c EXCEPT
                  !.carry = Rejected(checkStatus(c.carry.value).error),
                  !.pc = "putJson"]
          ELSE [c EXCEPT
                  !.carry = Resolved(checkStatus(c.carry.value).value),
                  !.pc = "putJson"])
    /\ UNCHANGED <<rateLimited, library, probe>>

\* .then(res => res.json()) on the PUT: res.json() is called and waits for
\* the body; a rejection is handed on to catch.
updateArticleTranslationThenJson(c) ==
    /\ c.op = "updateArticleTranslation"
    /\ c.pc = "putJson"
    /\ calls' = moved(c,
          IF c.carry.kind = "rejected"
          THEN [c EXCEPT !.settled = Append(@, c.carry), !.pc = "putCatch"]
          ELSE [c EXCEPT !.pc = "putBody"])
    /\ UNCHANGED <<rateLimited, library, probe>>

\* The callback of catch with this.rateLimited = !this.rateLimited on a 429.
updateArticleTranslationCatchToggle(c) ==
    /\ c.op = "updateArticleTranslation"
    /\ c.pc = "putCatch"
    /\ IF c.carry.kind = "resolved"
       THEN /\ calls' = moved(c, [c EXCEPT !.carry = Pending,
                                           !.result = c.carry,
                                           !.pc = "done"])
            /\ UNCHANGED rateLimited
       ELSE IF codeIs(c.carry.error, 404)
       THEN /\ calls' = moved(c, [c EXCEPT
                  !.carry = Pending,
                  !.reqs = Append(@, [c.reqs[1] EXCEPT !.method = "post",
                                                       !.limited = rateLimited]),
                  !.pc = "awaitPost"])
            /\ UNCHANGED rateLimited
       ELSE /\ rateLimited' = IF codeIs(c.carry.error, 429) THEN ~rateLimited ELSE rateLimited
            /\ calls' = moved(c, [c EXCEPT
                  !.carry = Pending,
                  !.out = Append(@, "Error processing id " \o ToString(c.id)
                                    \o " for locale " \o c.locale \o ": "
                                    \o c.carry.error.message \o "\n"),
                  !.result = c.carry,
                  !.pc = "done"])
    /\ UNCHANGED <<library, probe>>

\* .catch((err) => ...) on the chain of the PUT.  A parsed body is handed on
\* and settles the call.  On a rejection the callback runs: it issues the POST and
\* returns its chain when err.code === 404; otherwise it sets the flag when
\* err.code === 429, writes the line and throws err.
updateArticleTranslationCatch(c) ==
    /\ c.op = "updateArticleTranslation"
    /\ c.pc = "putCatch"
    /\ IF c.carry.kind = "resolved"
       THEN /\ calls' = moved(c, [c EXCEPT !.carry = Pending,
                                           !.result = c.carry,
                                           !.pc = "done"])
            /\ UNCHANGED rateLimited
       ELSE IF codeIs(c.carry.error, 404)
       THEN \* not found, try create instead
            /\ calls' = moved(c, [c EXCEPT
                  !.carry = Pending,
                  !.reqs = Append(@,
                        [method |-> "post",
                         url |-> baseUrl \o "/api/v2/solutions/articles/"
                                 \o ToString(c.id) \o "/" \o c.locale,
                         body |-> JSONstringify(c.body),
                         headers |-> defaultHeaders,
                         limited |-> rateLimited]),
                  !.pc = "awaitPost"])
            /\ UNCHANGED rateLimited
       ELSE /\ rateLimited' = IF codeIs(c.carry.error, 429) THEN TRUE ELSE rateLimited
            /\ calls' = moved(c, [c EXCEPT
                  !.carry = Pending,
                  !.out = Append(@, "Error processing id " \o ToString(c.id)
                                    \o " for locale " \o c.locale \o ": "
                                    \o c.carry.error.message \o "\n"),
                  !.result = c.carry,
                  !.pc = "done"])
    /\ UNCHANGED <<library, probe>>

\* .then(this.checkStatus) on the fetch of the POST.
updateArticleTranslationPostThenCheckStatus(c) ==
    /\ c.op = "updateArticleTranslation"
    /\ c.pc = "postCheckStatus"
    /\ calls' = moved(c,
          IF c.carry.kind = "rejected"
          THEN [c EXCEPT !.pc = "postJson"]
          ELSE IF checkStatus(c.carry.value).threw
          THEN [c EXCEPT
                  !.carry = Rejected(checkStatus(c.carry.value).error),
                  !.pc = "postJson"]
          ELSE [c EXCEPT
                  !.carry = Resolved(checkStatus(c.carry.value).value),
                  !.pc = "postJson"])
    /\ UNCHANGED <<rateLimited, library, probe>>

\* .then(res => res.json()) on the POST: res.json() is called and waits for
\* the body; a rejection settles the chain the callback of catch returned.
updateArticleTranslationPostThenJson(c) ==
    /\ c.op = "updateArticleTranslation"
    /\ c.pc = "postJson"
    /\ calls' = moved(c,
          IF c.carry.kind = "rejected"
          THEN [c EXCEPT !.settled = Append(@, c.carry), !.pc = "postReturn"]
          ELSE [c EXCEPT !.pc = "postBody"])
    /\ UNCHANGED <<rateLimited, library, probe>>

\* The fallback POST sent once more when it fails with 429, and the call left
\* waiting when that one fails with 429 too.
updateArticleTranslationPostRetry(c) ==
    /\ c.op = "updateArticleTranslation"
    /\ c.pc = "postReturn"
    /\ Len(c.reqs) < 3 \/ ~(c.carry.kind = "rejected" /\ codeIs(c.carry.error, 429))
    /\ IF c.carry.kind = "rejected" /\ codeIs(c.carry.error, 429)
       THEN calls' = moved(c, [c EXCEPT !.carry = Pending,
                                        !.reqs = Append(@, c.reqs[2]),
                                        !.pc = "awaitPost"])
       ELSE calls' = moved(c, [c EXCEPT !.carry = Pending,
                                        !.result = c.carry,
                                        !.pc = "done"])
    /\ UNCHANGED <<rateLimited, library, probe>>

\* The end of the fallback with the error of the PUT thrown when the POST fails.
updateArticleTranslationPostFirstError(c) ==
    /\ c.op = "updateArticleTranslation"
    /\ c.pc = "postReturn"
    /\ calls' = moved(c, [c EXCEPT
            !.carry = Pending,
            !.result = IF c.carry.kind = "rejected" THEN c.settled[1] ELSE c.carry,
            !.pc = "done"])
    /\ UNCHANGED <<rateLimited, library, probe>>

\* The chain of the POST, which the callback of catch returned, has settled:
\* the promise of the call follows it, whatever it settled to.
updateArticleTranslationPost(c) ==
    /\ c.op = "updateArticleTranslation"
    /\ c.pc = "postReturn"
    /\ calls' = moved(c, [c EXCEPT !.carry = Pending,
                                   !.result = c.carry,
                                   !.pc = "done"])
    /\ UNCHANGED <<rateLimited, library, probe>>

-----------------------------------------------------------------------------
(* The list operations *)

\* listCategories(): fetch is called and the function awaits it.
listCategories ==
    /\ canCall
    /\ calls' = with(
            [made("listCategories", 0, "", NoBody) EXCEPT
                !.reqs = <<[method |-> "get",
                            url |-> baseUrl \o "/api/v2/solutions/categories",
                            headers |-> defaultHeaders,
                            limited |-> rateLimited]>>,
                !.pc = "awaitGet"])
    /\ UNCHANGED <<rateLimited, library, probe>>

\* listCategories with this.rateLimited set when checkStatus throws a 429.
listCategoriesResumeTrip(c) ==
    /\ c.op = "listCategories"
    /\ c.pc = "getResume"
    /\ calls' = moved(c,
          IF c.carry.kind = "rejected"
          THEN [c EXCEPT !.settled = <<c.carry>>,
                         !.carry = Pending,
                         !.result = c.carry,
                         !.pc = "done"]
          ELSE IF checkStatus(c.carry.value).threw
          THEN [c EXCEPT !.settled = <<Rejected(checkStatus(c.carry.value).error)>>,
                         !.carry = Pending,
                         !.result = Rejected(checkStatus(c.carry.value).error),
                         !.pc = "done"]
          ELSE [c EXCEPT !.carry = Resolved(checkStatus(c.carry.value).value),
                         !.pc = "getBody"])
    /\ rateLimited' = IF /\ c.carry.kind = "resolved"
                         /\ checkStatus(c.carry.value).threw
                         /\ codeIs(checkStatus(c.carry.value).error, 429)
                      THEN TRUE ELSE rateLimited
    /\ UNCHANGED <<library, probe>>

\* return this.checkStatus(await fetch(...)).json(): the function resumes after
\* the await.  A rejection of fetch is thrown; otherwise checkStatus is called
\* with the response and throws, or res.json() is called and waits for the
\* body.  What is thrown rejects the promise of the call.
listCategoriesResume(c) ==
    /\ c.op = "listCategories"
    /\ c.pc = "getResume"
    /\ calls' = moved(c,
          IF c.carry.kind = "rejected"
          THEN [c EXCEPT !.settled = <<c.carry>>,
                         !.carry = Pending,
                         !.result = c.carry,
                         !.pc = "done"]
          ELSE IF checkStatus(c.carry.value).threw
          THEN [c EXCEPT !.settled = <<Rejected(checkStatus(c.carry.value).error)>>,
                         !.carry = Pending,
                         !.result = Rejected(checkStatus(c.carry.value).error),
                         !.pc = "done"]
          ELSE [c EXCEPT !.carry = Resolved(checkStatus(c.carry.value).value),
                         !.pc = "getBody"])
    /\ UNCHANGED <<rateLimited, library, probe>>

\* listFolders(category), with category.id = id: fetch is called and the function awaits it.
listFolders(id) ==
    /\ canCall
    /\ calls' = with(
            [made("listFolders", id, "", NoBody) EXCEPT
                !.reqs = <<[method |-> "get",
                            url |-> baseUrl \o "/api/v2/solutions/categories/"
                                    \o ToString(id) \o "/folders",
                            headers |-> defaultHeaders,
                            limited |-> rateLimited]>>,
                !.pc = "awaitGet"])
    /\ UNCHANGED <<rateLimited, library, probe>>

\* listFolders with the GET sent again when checkStatus throws a 429.
listFoldersResumeRetry(c) ==
    /\ c.op = "listFolders"
    /\ c.pc = "getResume"
    /\ Len(c.reqs) < 3
    /\ calls' = moved(c,
          IF c.carry.kind = "rejected"
          THEN [c EXCEPT !.settled = <<c.carry>>,
                         !.carry = Pending,
                         !.result = c.carry,
                         !.pc = "done"]
          ELSE IF checkStatus(c.carry.value).threw
          THEN IF codeIs(checkStatus(c.carry.value).error, 429)
               THEN [c EXCEPT !.reqs = Append(@, c.reqs[1]),
                              !.carry = Pending,
                              !.pc = "awaitGet"]
               ELSE [c EXCEPT !.settled = <<Rejected(checkStatus(c.carry.value).error)>>,
                              !.carry = Pending,
                              !.result = Rejected(checkStatus(c.carry.value).error),
                              !.pc = "done"]
          ELSE [c EXCEPT !.carry = Resolved(checkStatus(c.carry.value).value),
                         !.pc = "getBody"])
    /\ UNCHANGED <<rateLimited, library, probe>>

\* return this.checkStatus(await fetch(...)).json(): the function resumes after
\* the await.  A rejection of fetch is thrown; otherwise checkStatus is called
\* with the response and throws, or res.json() is called and waits for the
\* body.  What is thrown rejects the promise of the call.
listFoldersResume(c) ==
    /\ c.op = "listFolders"
    /\ c.pc = "getResume"
    /\ calls' = moved(c,
          IF c.carry.kind = "rejected"
          THEN [c EXCEPT !.settled = <<c.carry>>,
                         !.carry = Pending,
                         !.result = c.carry,
                         !.pc = "done"]
          ELSE IF checkStatus(c.carry.value).threw
          THEN [c EXCEPT !.settled = <<Rejected(checkStatus(c.carry.value).error)>>,
                         !.carry = Pending,
                         !.result = Rejected(checkStatus(c.carry.value).error),
                         !.pc = "done"]
          ELSE [c EXCEPT !.carry = Resolved(checkStatus(c.carry.value).value),
                         !.pc = "getBody"])
    /\ UNCHANGED <<rateLimited, library, probe>>

\* listArticles(folder), with folder.id = id: fetch is called and the function awaits it.
listArticles(id) ==
    /\ canCall
    /\ calls' = with(
            [made("listArticles", id, "", NoBody) EXCEPT
                !.reqs = <<[method |-> "get",
                            url |-> baseUrl \o "/api/v2/solutions/folders/"
                                    \o ToString(id) \o "/articles",
                            headers |-> defaultHeaders,
                            limited |-> rateLimited]>>,
                !.pc = "awaitGet"])
    /\ UNCHANGED <<rateLimited, library, probe>>

\* return this.checkStatus(await fetch(...)).json(): the function resumes after
\* the await.  A rejection of fetch is thrown; otherwise checkStatus is called
\* with the response and throws, or res.json() is called and waits for the
\* body.  What is thrown rejects the promise of the call.
listArticlesResume(c) ==
    /\ c.op = "listArticles"
    /\ c.pc = "getResume"
    /\ calls' = moved(c,
          IF c.carry.kind = "rejected"
          THEN [c EXCEPT !.settled = <<c.carry>>,
                         !.carry = Pending,
                         !.result = c.carry,
                         !.pc = "done"]
          ELSE IF checkStatus(c.carry.value).threw
          THEN [c EXCEPT !.settled = <<Rejected(checkStatus(c.carry.value).error)>>,
                         !.carry = Pending,
                         !.result = Rejected(checkStatus(c.carry.value).error),
                         !.pc = "done"]
          ELSE [c EXCEPT !.carry = Resolved(checkStatus(c.carry.value).value),
                         !.pc = "getBody"])
    /\ UNCHANGED <<rateLimited, library, probe>>

-----------------------------------------------------------------------------
(* The specification of the instance *)

Next ==
    \/ \E t \in Translations : updateCategoryTranslation(t.id, t.locale, t.body)
    \/ \E t \in Translations : updateFolderTranslation(t.id, t.locale, t.body)
    \/ \E t \in Translations : updateArticleTranslation(t.id, t.locale, t.body)
    \/ listCategories
    \/ \E id \in Ids : listFolders(id)
    \/ \E id \in Ids : listArticles(id)
    \/ \E c \in Calls, net \in NetOutcomes : fetchSettles(c, net)
    \/ \E c \in Calls : bodyArrives(c)
    \/ \E c \in Calls : updateCategoryTranslationThenCheckStatus(c)
    \/ \E c \in Calls : updateCategoryTranslationThenJson(c)
    \/ \E c \in Calls : updateCategoryTranslationCatch(c)
    \/ \E c \in Calls : updateCategoryTranslationPostThenCheckStatus(c)
    \/ \E c \in Calls : updateCategoryTranslationPostThenJson(c)
    \/ \E c \in Calls : updateCategoryTranslationPost(c)
    \/ \E c \in Calls : updateFolderTranslationThenCheckStatus(c)
    \/ \E c \in Calls : updateFolderTranslationThenJson(c)
    \/ \E c \in Calls : updateFolderTranslationCatch(c)
    \/ \E c \in Calls : updateFolderTranslationPostThenCheckStatus(c)
    \/ \E c \in Calls : updateFolderTranslationPostThenJson(c)
    \/ \E c \in Calls : updateFolderTranslationPost(c)
    \/ \E c \in Calls : updateArticleTranslationThenCheckStatus(c)
    \/ \E c \in Calls : updateArticleTranslationThenJson(c)
    \/ \E c \in Calls : updateArticleTranslationCatch(c)
    \/ \E c \in Calls : updateArticleTranslationPostThenCheckStatus(c)
    \/ \E c \in Calls : updateArticleTranslationPostThenJson(c)
    \/ \E c \in Calls : updateArticleTranslationPost(c)
    \/ \E c \in Calls : listCategoriesResume(c)
    \/ \E c \in Calls : listFoldersResume(c)
    \/ \E c \in Calls : listArticlesResume(c)

Spec == Init /\ [][Next]_vars

-----------------------------------------------------------------------------
(* The upsert calls alone, with every request settled in the end *)

\* A step of an upsert call that is under way: the network settles its fetch
\* or delivers the body, or one of its jobs runs.
settle ==
    \E c \in Calls :
        \/ \E net \in NetOutcomes : fetchSettles(c, net)
        \/ bodyArrives(c)
        \/ updateCategoryTranslationThenCheckStatus(c)
        \/ updateCategoryTranslationThenJson(c)
        \/ updateCategoryTranslationCatch(c)
        \/ updateCategoryTranslationPostThenCheckStatus(c)
        \/ updateCategoryTranslationPostThenJson(c)
        \/ updateCategoryTranslationPost(c)
        \/ updateFolderTranslationThenCheckStatus(c)
        \/ updateFolderTranslationThenJson(c)
        \/ updateFolderTranslationCatch(c)
        \/ updateFolderTranslationPostThenCheckStatus(c)
        \/ updateFolderTranslationPostThenJson(c)
        \/ updateFolderTranslationPost(c)
        \/ updateArticleTranslationThenCheckStatus(c)
        \/ updateArticleTranslationThenJson(c)
        \/ updateArticleTranslationCatch(c)
        \/ updateArticleTranslationPostThenCheckStatus(c)
        \/ updateArticleTranslationPostThenJson(c)
        \/ updateArticleTranslationPost(c)

NextUpsert ==
    \/ \E t \in Translations : updateCategoryTranslation(t.id, t.locale, t.body)
    \/ \E t \in Translations : updateFolderTranslation(t.id, t.locale, t.body)
    \/ \E t \in Translations : updateArticleTranslation(t.id, t.locale, t.body)
    \/ settle

\* Every request that was issued is completed in the end, with a response and
\* its body or with a failure, and a job that is queued is run: as long as an
\* upsert call is under way, one of them takes a step.
Settles == WF_vars(settle)

FairSpec == Init /\ [][NextUpsert]_vars /\ Settles

-----------------------------------------------------------------------------
(* checkStatus on its own: every response of Responses is handed to it *)

InitCheckStatus ==
    /\ rateLimited = FALSE
    /\ calls = EmptyBag
    /\ library \in Libraries
    /\ \E r \in Responses : probe = [applied |-> FALSE, res |-> r, out |-> NotApplied]

applyCheckStatus ==
    /\ ~probe.applied
    /\ probe' = [probe EXCEPT !.applied = TRUE, !.out = checkStatus(probe.res)]
    /\ UNCHANGED <<rateLimited, calls, library>>

NextCheckStatus == applyCheckStatus

SpecCheckStatus == InitCheckStatus /\ [][NextCheckStatus]_vars

-----------------------------------------------------------------------------
(* Properties *)

isUpdate(c) == c.op \in UpdateOps
isList(c) == c.op \in ListOps

\* The error e carries the numeric code n.
carries(e, n) == "code" \in DOMAIN e /\ e.code = [number |-> n]

\* The chain of the i-th request of the call c has settled with a failure (of
\* code n).
failedAt(c, i) == Len(c.settled) >= i /\ c.settled[i].kind = "rejected"
failedWith(c, i, n) == failedAt(c, i) /\ carries(c.settled[i].error, n)

\* C1: an upsert call made while rateLimited is true (whatever its method, id,
\* locale and body) returns the sentinel -1 at once and issues no request; and
\* rateLimited is true once an upsert whose PUT got 429 has ended, so that
\* every upsert made after it is such a call.
C1_ShortCircuit ==
    /\ \A c \in Calls :
          (isUpdate(c) /\ c.entryFlag) =>
              /\ c.pc = "done"
              /\ c.result = Sentinel
              /\ c.reqs = <<>>
              /\ c.settled = <<>>
              /\ c.carry = Pending
    /\ (\E c \in Calls : isUpdate(c) /\ c.pc = "done" /\ failedWith(c, 1, 429))
          => rateLimited

\* A folder upsert whose PUT got 429, and a category upsert made once the flag
\* was set, which returned -1 without a request.
C1_Witness ==
    \E c, d \in Calls :
        /\ c.op = "updateFolderTranslation" /\ failedWith(c, 1, 429) /\ c.pc = "done"
        /\ d.op = "updateCategoryTranslation" /\ d.entryFlag
        /\ d.result = Sentinel /\ d.reqs = <<>>

\* C2: when a failure of an upsert call, of its PUT or of its fallback POST,
\* carries code 429, rateLimited is true once the call has finished.
C2_Any429Trips ==
    \A c \in Calls :
        (/\ isUpdate(c) /\ c.pc = "done"
         /\ \E i \in 1..Len(c.settled) : failedWith(c, i, 429))
        => rateLimited

C4_NoFallback ==
    \A c \in Calls :
        (isUpdate(c) /\ failedAt(c, 1) /\ ~carries(c.settled[1].error, 404)) =>
            /\ c.pc \in {"putCatch", "done"}
            /\ Len(c.reqs) = 1 /\ c.reqs[1].method = "put"
            /\ Len(c.settled) = 1
            /\ c.pc = "putCatch" => c.result = Pending
            /\ c.pc = "done" => c.result = c.settled[1]

C4_FlagStep ==
    \A c \in Calls : \A d \in BagToSet(calls') :
        (/\ isUpdate(c) /\ c.pc = "putCatch"
         /\ calls' = moved(c, d)
         /\ failedAt(c, 1) /\ ~carries(c.settled[1].error, 404))
        => /\ d.pc = "done"
           /\ rateLimited' = (rateLimited \/ carries(c.settled[1].error, 429))

C4_OtherFailures == []C4_NoFallback /\ [][C4_FlagStep]_vars

\* Two upserts ended by the failure of their PUT, one with 429 and one with
\* another failure, and the flag set.
C4_Witness ==
    /\ rateLimited
    /\ \E c, d \in Calls :
        /\ isUpdate(c) /\ c.pc = "done" /\ failedWith(c, 1, 429)
        /\ isUpdate(d) /\ d.pc = "done" /\ failedAt(d, 1)
        /\ ~carries(d.settled[1].error, 404) /\ ~carries(d.settled[1].error, 429)

\* C5: an upsert call that ends in a failure, of its PUT or of its fallback
\* POST, has written a line with its id, its locale and the error's message.
C5_EveryFailureLogged ==
    \A c \in Calls :
        (isUpdate(c) /\ c.pc = "done" /\ c.result.kind = "rejected") =>
            \E i \in 1..Len(c.out) :
                c.out[i] = "Error processing id " \o ToString(c.id)
                           \o " for locale " \o c.locale \o ": "
                           \o c.result.error.message \o "\n"

\* C6: rateLimited starts false and no step takes it from true to false.
C6_FlagMonotone == (rateLimited = FALSE) /\ [][rateLimited => rateLimited']_vars

\* The flag was set by a 429, a list call was made and has finished since,
\* and the flag is still set.
C6_Witness ==
    /\ rateLimited
    /\ \E c, d \in Calls :
        /\ isUpdate(c) /\ failedWith(c, 1, 429)
        /\ isList(d) /\ d.entryFlag /\ d.pc = "done"

\* C7: checkStatus on a response whose status is outside 200..299 throws an
\* error with the response's status as code and its status text in the
\* message, whatever the content type; the error has a retryAfter, the value
\* of the Retry-After header, exactly when the status is 429.
C7_StatusGate ==
    (probe.applied /\ ~(probe.res.status >= 200 /\ probe.res.status <= 299)) =>
        /\ probe.out.threw
        /\ "code" \in DOMAIN probe.out.error
        /\ probe.out.error.code = [number |-> probe.res.status]
        /\ probe.out.error.message = "response " \o StatusText(probe.res.status)
        /\ ("retryAfter" \in DOMAIN probe.out.error) <=> (probe.res.status = 429)
        /\ probe.res.status = 429 =>
              probe.out.error.retryAfter =
                  IF "retry-after" \in DOMAIN probe.res.headers
                  THEN probe.res.headers["retry-after"]
                  ELSE Null

\* A 429 with a JSON content type and a Retry-After header has been checked.
C7_Witness ==
    /\ probe.applied
    /\ probe.res.status = 429
    /\ "content-type" \in DOMAIN probe.res.headers
    /\ probe.res.headers["content-type"] = "application/json"
    /\ "retry-after" \in DOMAIN probe.res.headers
    /\ probe.out.threw /\ probe.out.error.retryAfter = "30"

\* The content types of the model that start with application/json.
JsonContentTypes == {"application/json", "application/json; charset=utf-8"}

\* C8: checkStatus on a response whose status is in 200..299 returns the
\* response itself exactly when its Content-Type starts with application/json;
\* otherwise it throws an error that names the content type and has no code.
C8_ContentTypeGate ==
    (probe.applied /\ probe.res.status >= 200 /\ probe.res.status <= 299) =>
        LET present == "content-type" \in DOMAIN probe.res.headers
            isJson == present /\ probe.res.headers["content-type"] \in JsonContentTypes
        IN  /\ ~probe.out.threw <=> isJson
            /\ ~probe.out.threw => probe.out.value = probe.res
            /\ probe.out.threw =>
                  /\ "code" \notin DOMAIN probe.out.error
                  /\ probe.out.error.message =
                        "response not json: "
                        \o (IF present THEN probe.res.headers["content-type"] ELSE "null")

\* A 201 with a charset parameter after application/json has been let through.
C8_Witness ==
    /\ probe.applied
    /\ probe.res.status = 201
    /\ "content-type" \in DOMAIN probe.res.headers
    /\ probe.res.headers["content-type"] = "application/json; charset=utf-8"
    /\ ~probe.out.threw

\* C9: a list call issues one GET and no other request, and whatever the GET
\* settles to is the outcome of the call.
C9_ListOnce ==
    \A c \in Calls :
        isList(c) =>
            /\ Len(c.reqs) = 1
            /\ c.reqs[1].method = "get"
            /\ c.pc \in {"awaitGet", "getResume", "getBody", "done"}
            /\ c.pc # "done" => (c.settled = <<>> /\ c.result = Pending)
            /\ c.pc = "done" => (Len(c.settled) = 1 /\ c.result = c.settled[1])

\* Two list calls have failed, one with 404 and one with 429.
C9_Witness ==
    \E c, d \in Calls :
        /\ isList(c) /\ c.pc = "done" /\ failedWith(c, 1, 404)
        /\ isList(d) /\ d.pc = "done" /\ failedWith(d, 1, 429)
        /\ c.result.kind = "rejected" /\ d.result.kind = "rejected"

\* C10: an upsert call issues at most two requests, a PUT and then at most one
\* POST; the POST comes only after the PUT has failed with code 404, and
\* nothing is issued after the POST has settled.
C10_AtMostTwo ==
    \A c \in Calls :
        isUpdate(c) =>
            /\ Len(c.reqs) <= 2
            /\ Len(c.reqs) >= 1 => c.reqs[1].method = "put"
            /\ Len(c.reqs) = 2 => (c.reqs[2].method = "post" /\ failedWith(c, 1, 404))
            /\ Len(c.settled) <= Len(c.reqs)
            /\ Len(c.settled) = 2 => c.pc \in {"postReturn", "done"}

\* An upsert whose PUT and whose POST both failed with 404 has finished.
C10_Witness ==
    \E c \in Calls :
        /\ isUpdate(c) /\ c.pc = "done" /\ Len(c.reqs) = 2
        /\ failedWith(c, 1, 404) /\ failedWith(c, 2, 404)

\* C11: whatever the order in which the responses of the pending upserts
\* arrive and their jobs run, rateLimited is true only if the PUT of at least
\* one upsert call has failed with 429, and it is true once a call whose PUT
\* failed with 429 has finished; a second 429 and any later response leave it
\* set.  So when the calls have finished it is true exactly when the PUT of
\* one of them failed with 429.
C11_FlagIffSome429 ==
    /\ rateLimited => (\E c \in Calls : isUpdate(c) /\ failedWith(c, 1, 429))
    /\ \A c \in Calls :
          (isUpdate(c) /\ c.pc = "done" /\ failedWith(c, 1, 429)) => rateLimited
    /\ (\A c \in Calls : c.pc = "done") =>
          (rateLimited <=> (\E c \in Calls : isUpdate(c) /\ failedWith(c, 1, 429)))

\* Two upserts were pending at once (both made while the flag was false), the
\* PUT of each failed with 429, and the flag is set.
C11_Witness ==
    /\ rateLimited
    /\ BagCardinality(calls) = 2
    /\ \A c \in Calls :
        /\ isUpdate(c) /\ ~c.entryFlag /\ c.pc = "done" /\ failedWith(c, 1, 429)

\* C12: no PUT is issued while rateLimited is true; a request of an upsert
\* issued while it is true is the fallback POST of a call that was made, and
\* whose PUT was issued, while it was false.
C12_NoPutWhileLimited ==
    \A c \in Calls :
        isUpdate(c) =>
            \A i \in 1..Len(c.reqs) :
                /\ c.reqs[i].method = "put" => ~c.reqs[i].limited
                /\ c.reqs[i].limited =>
                      /\ i = 2
                      /\ c.reqs[i].method = "post"
                      /\ ~c.entryFlag
                      /\ c.reqs[1].method = "put" /\ ~c.reqs[1].limited

\* A fallback POST was issued while the flag was set, by a call whose PUT went
\* out before.
C12_Witness ==
    /\ rateLimited
    /\ \E c \in Calls :
        /\ isUpdate(c) /\ Len(c.reqs) = 2
        /\ c.reqs[2].method = "post" /\ c.reqs[2].limited
        /\ ~c.reqs[1].limited

\* C13: an upsert call returns -1 only if rateLimited was true when it was
\* made; a call made while it was false has issued its PUT and, once finished,
\* has a parsed JSON result or an error, also when the flag was set meanwhile.
C13_SentinelOnlyAtEntry ==
    \A c \in Calls :
        isUpdate(c) =>
            /\ c.result = Sentinel => c.entryFlag
            /\ ~c.entryFlag =>
                  /\ Len(c.reqs) >= 1 /\ c.reqs[1].method = "put"
                  /\ c.pc = "done" => c.result.kind \in {"resolved", "rejected"}
                  /\ c.pc # "done" => c.result = Pending

\* A call made while the flag was false finished with a parsed result after
\* the flag had been set (its POST went out under the flag).
C13_Witness ==
    /\ rateLimited
    /\ \E c \in Calls :
        /\ isUpdate(c) /\ ~c.entryFlag /\ c.pc = "done"
        /\ Len(c.reqs) = 2 /\ c.reqs[2].limited
        /\ c.result.kind = "resolved"

\* C14: no step of an upsert call none of whose requests has failed with 429
\* changes rateLimited: not the call being made (and returning -1 or issuing
\* its PUT), and no job of a call whose PUT or POST ended with a parsed body,
\* with an error of another code, with a non-JSON response or with a transport
\* failure.
C14_Step ==
    /\ \A d \in BagToSet(calls') :
          (isUpdate(d) /\ calls' = with(d)) => rateLimited' = rateLimited
    /\ \A c \in Calls : \A d \in BagToSet(calls') :
          (/\ isUpdate(c) /\ c # d /\ calls' = moved(c, d)
           /\ ~(\E i \in 1..Len(d.settled) : failedWith(d, i, 429)))
          => rateLimited' = rateLimited

C14_No429NoChange == [][C14_Step]_vars

\* Two upserts have finished without a 429, one through the fallback POST and
\* one with a failure that is no 404, and the flag is still false.
C14_Witness ==
    /\ ~rateLimited
    /\ \E c, d \in Calls :
        /\ isUpdate(c) /\ c.pc = "done" /\ failedWith(c, 1, 404)
        /\ c.result.kind = "resolved"
        /\ isUpdate(d) /\ d.pc = "done" /\ failedAt(d, 1)
        /\ ~carries(d.settled[1].error, 404) /\ d.result.kind = "rejected"

\* C15: a list call issues its GET whatever the value of rateLimited when it
\* is made and never returns -1, and no step of a list call, its GET failing
\* with 429 included, changes rateLimited.
C15_ListIssues ==
    \A c \in Calls :
        isList(c) =>
            /\ Len(c.reqs) >= 1
            /\ c.reqs[1].limited = c.entryFlag
            /\ c.result # Sentinel

C15_ListStep ==
    /\ \A d \in BagToSet(calls') :
          (isList(d) /\ calls' = with(d)) => rateLimited' = rateLimited
    /\ \A c \in Calls : \A d \in BagToSet(calls') :
          (isList(c) /\ c # d /\ calls' = moved(c, d)) => rateLimited' = rateLimited

C15_ListsIgnoreFlag == []C15_ListIssues /\ [][C15_ListStep]_vars

\* A list call has failed with 429, the flag is false, and an upsert has its
\* PUT on the network.
C15_Witness ==
    /\ ~rateLimited
    /\ \E c, d \in Calls :
        /\ isList(c) /\ c.pc = "done" /\ failedWith(c, 1, 429)
        /\ isUpdate(d) /\ d.pc = "awaitPut" /\ Len(d.reqs) = 1

\* The part of the URL that names the kind of entity of an update method.
Segment(op) ==
    CASE op = "updateCategoryTranslation" -> "categories"
      [] op = "updateFolderTranslation" -> "folders"
      [] op = "updateArticleTranslation" -> "articles"

methods(c) == [i \in 1..Len(c.reqs) |-> c.reqs[i].method]
payloads(c) == [i \in 1..Len(c.reqs) |-> <<c.reqs[i].body, c.reqs[i].headers>>]

\* What an upsert call made with the flag false has written when it is at pc
\* with the chains of its requests settled as in settled.
written(c) ==
    IF c.pc = "done" /\ Len(c.settled) = 1 /\ failedAt(c, 1)
    THEN <<"Error processing id " \o ToString(c.id) \o " for locale "
           \o c.locale \o ": " \o c.settled[1].error.message \o "\n">>
    ELSE <<>>

\* C16: one law holds for the calls of the three update methods, with the
\* segment of the method in the URL as its only parameter.  A call made under
\* the flag has returned -1, written the line and issued nothing.  A call made
\* without it has issued a PUT, and a POST as well exactly when the job of
\* catch has seen the PUT fail with 404, both to the URL of the method with the
\* JSON of the body and the default headers; it has written the diagnostic
\* line exactly when it ended on a failure of the PUT; its outcome is what its
\* last request settled to.  And a step of an upsert changes rateLimited in the
\* same way for the three: it is set exactly when the job of catch handles a
\* PUT that failed with 429.
C16_SameTrace ==
    \A c \in Calls :
        isUpdate(c) =>
            IF c.entryFlag
            THEN /\ c.pc = "done" /\ c.result = Sentinel /\ c.reqs = <<>>
                 /\ c.out = <<"Rate limited, skipping id: " \o ToString(c.id)
                              \o " for " \o c.locale \o "\n">>
            ELSE /\ methods(c) = IF failedWith(c, 1, 404) /\ c.pc # "putCatch"
                                 THEN <<"put", "post">> ELSE <<"put">>
                 /\ \A i \in 1..Len(c.reqs) :
                       /\ c.reqs[i].url =
                             baseUrl \o "/api/v2/solutions/" \o Segment(c.op)
                             \o "/" \o ToString(c.id) \o "/" \o c.locale
                       /\ payloads(c)[i] = <<JSONstringify(c.body), defaultHeaders>>
                 /\ c.out = written(c)
                 /\ c.result = IF c.pc = "done"
                               THEN c.settled[Len(c.settled)] ELSE Pending

C16_SameFlagStep ==
    \A c \in Calls : \A d \in BagToSet(calls') :
        (isUpdate(c) /\ c # d /\ calls' = moved(c, d))
        => rateLimited' =
              (rateLimited \/ (c.pc = "putCatch" /\ failedWith(c, 1, 429)))

C16_SameProtocol == []C16_SameTrace /\ [][C16_SameFlagStep]_vars

\* Calls of two different methods with the same arguments have both gone
\* through PUT 404 and a failed POST.
C16_Witness ==
    \E c, d \in Calls :
        /\ isUpdate(c) /\ isUpdate(d) /\ c.op # d.op
        /\ c.id = d.id /\ c.locale = d.locale /\ c.body = d.body
        /\ c.settled = d.settled /\ Len(c.settled) = 2
        /\ c.pc = "done" /\ d.pc = "done" /\ c.result.kind = "rejected"
        /\ c.result = d.result /\ c.out = d.out

\* Every upsert call made so far has finished, with -1, with a parsed body or
\* with an error, after at most two responses.
UpdatesFinished ==
    \A c \in Calls :
        isUpdate(c) =>
            /\ c.pc = "done"
            /\ Len(c.settled) <= 2
            /\ \/ c.result = Sentinel /\ c.settled = <<>>
               \/ c.result.kind = "resolved" /\ c.result = c.settled[Len(c.settled)]
               \/ c.result.kind = "rejected" /\ c.result = c.settled[Len(c.settled)]

\* C17: when every issued request is settled in the end, the upsert calls all
\* finish: from some point on every upsert call that was made has ended in
\* -1, a parsed body or an error, with at most two responses handled.
C17_UpsertsFinish == <>[]UpdatesFinished

\* Two upserts have finished, one with the body the fallback POST returned (two
\* responses) and one with the failure of its PUT (one response).
C17_Witness ==
    /\ UpdatesFinished
    /\ \E c, d \in Calls :
        /\ isUpdate(c) /\ Len(c.settled) = 2 /\ c.result.kind = "resolved"
        /\ isUpdate(d) /\ Len(d.settled) = 1 /\ d.result.kind = "rejected"

====
